---- MODULE Spec2Model ----
(***************************************************************************)
(* Model of the ReAMP task classifier: the classification-and-update cycle *)
(* (app/scheduler.py), the ServiceNow connector, the classifier, the       *)
(* output writer and the rollback tool.                                    *)
(*                                                                         *)
(* Python strings are sequences of one-character strings, so that length,  *)
(* slicing, strip() and lower() are computed and not assumed.  None is the *)
(* one-element sequence <<"None">>, which no character sequence equals.    *)
(***************************************************************************)
EXTENDS Integers, Sequences, FiniteSets, TLC

VARIABLES
    dry_run,            \* TaskParserScheduler.dry_run
    use_mock,           \* TaskParserScheduler(use_mock=...)
    connector_dry_run,  \* scheduler.connector.dry_run
    tickets,            \* the incident table of the ticket system
    clock,              \* wall clock, in whole seconds
    pc,                 \* position of process_tickets
    cycles,             \* number of cycles started so far
    incidents,          \* process_tickets: incidents (after sampling)
    idx,                \* process_tickets: loop index (1-based)
    choices,            \* process_tickets: the four *_choices of the cycle
    cycle_stats,        \* process_tickets: cycle_stats
    stats,              \* TaskParserScheduler.stats
    run_ts,             \* process_tickets: run_ts
    audit_csv_path,     \* process_tickets: audit_csv_path (None or the run_ts naming the file)
    details,            \* process_tickets: result["details"] of the current incident
    results,            \* outputs/task_classifier_results.json (the array)
    auditFiles,         \* outputs/audit_<ts>.csv, the data rows of each file
    calls,              \* update_incident calls issued by the running program
    patches,            \* PATCH requests sent by the running program
    class_errors,       \* errors counted in this cycle for failed classifications
    audit_failed,       \* an append_audit_entry call of this cycle raised
    outcomes,           \* per incident processed in this cycle: classify returned SUCCESS
    audited,            \* the rows this cycle appended to its audit file
    succeeded,          \* the audit rows owed for this cycle's successful updates
    rb_pc,              \* position of rollback_from_audit.main
    rb_commit,          \* main(commit=...)
    rb_file,            \* main(audit_file=...)
    rb_actions,         \* main: actions
    rb_idx,             \* main: loop index (1-based)
    rb_prints,          \* main: number of "[DRY RUN] Would PATCH" lines printed
    rb_tickets0,        \* the incident table when main started
    rollbacks,          \* number of rollback runs started so far
    faults,             \* number of environment faults injected so far
    mock_updates,       \* MockServiceNowConnector.updates
    cl_in,              \* classify: the arguments and the model's response
    cl_out,             \* classify: the outcome
    w_pc,               \* position of append_task_result
    w_fs,               \* the outputs directory: the files, the archive, the csv rows
    w_data,             \* append_task_result: data
    w_record,           \* append_task_result: record
    w_before,           \* content of the feed file when the last call began
    w_appended,         \* the records put into the feed by the calls so far
    w_calls,            \* number of append_task_result calls begun so far
    model_calls,        \* incidents of this cycle for which the model was called
    summary_logged,     \* process_tickets has logged the summary of this cycle
    totals,             \* sums of the cycle_stats returned so far, and the fatal exits
    final_stats_printed, \* print_final_stats has run
    sample_size,        \* process_tickets: sample_size (0 for None)
    contacts,           \* requests this cycle has sent to the ServiceNow instance
    cf_in,              \* how the scheduler is built: entry point, arguments, DRY_RUN
    cf_pc               \* the scheduler is not yet built, built, or has updated

cfgVars == <<dry_run, use_mock, connector_dry_run, cf_in, cf_pc>>
cycVars == <<pc, cycles, incidents, idx, choices, cycle_stats, run_ts,
             audit_csv_path, details, class_errors, audit_failed, succeeded,
             outcomes, audited, sample_size, contacts>>
rbVars  == <<rb_pc, rb_commit, rb_file, rb_actions, rb_idx, rb_prints,
             rb_tickets0, rollbacks>>
clVars  == <<cl_in, cl_out>>
wrVars  == <<w_pc, w_fs, w_data, w_record, w_before, w_appended, w_calls>>
obsVars == <<model_calls, summary_logged, totals, final_stats_printed>>
vars == <<cfgVars, tickets, clock, cycVars, stats, results, auditFiles,
          calls, patches, rbVars, faults, mock_updates, clVars, wrVars,
          obsVars>>

----------------------------------------------------------------------------
(* Bounds *)
NumTickets   == 2   \* incidents in the ticket system
MaxCycles    == 2   \* cycles run by one scheduler
MaxClock     == 2   \* seconds the clock can show
MaxRollbacks == 1   \* rollback runs
MaxFaults    == 1   \* failed writes, rejected or lost requests
MaxClassified == 2  \* incidents the model classifies acceptably, over all cycles
MaxAppends   == 2   \* append_task_result calls followed step by step

(* Program constants *)
MaxCategoryLen == 40
DefaultLimit   == 50

----------------------------------------------------------------------------
(* Values *)
None == <<"None">>
Empty == <<>>
Rep(c, n) == [i \in 1..n |-> c]
Min(a, b) == IF a < b THEN a ELSE b

\* Python truthiness of a string-or-None value
Truthy(v) == v # None /\ v # Empty

\* x or ""
OrEmpty(v) == IF Truthy(v) THEN v ELSE Empty

CatNet   == <<"N", "e", "t">>
CatLong  == Rep("x", MaxCategoryLen + 1)   \* a choice of 41 characters
Hardware == <<"H", "W">>                   \* never offered as a choice
CatOld   == <<"O", "l", "d">>              \* a category set by hand earlier
SubVpn   == <<"v", "p", "n">>
SubBad   == <<"z", "z">>
One      == <<"1">>
Nine     == <<"9">>

TicketIds == 1..NumTickets

----------------------------------------------------------------------------
(* tools/ticket_classifier.py *)

UpperChars == <<"H", "I", "G", "M", "E", "D", "U", "L", "O", "W",
                "T", "R", "F", "A", "S">>
LowerChars == <<"h", "i", "g", "m", "e", "d", "u", "l", "o", "w",
                "t", "r", "f", "a", "s">>

\* str.lower(), one character
LowerChar(c) ==
    IF \E i \in 1..Len(UpperChars) : UpperChars[i] = c
    THEN LowerChars[CHOOSE i \in 1..Len(UpperChars) : UpperChars[i] = c]
    ELSE c

Lower(s) == [i \in 1..Len(s) |-> LowerChar(s[i])]

\* str.strip(): leading and trailing blanks removed
RECURSIVE LStrip(_)
LStrip(s) == IF s # <<>> /\ Head(s) = " " THEN LStrip(Tail(s)) ELSE s
RECURSIVE RStrip(_)
RStrip(s) == IF s # <<>> /\ s[Len(s)] = " " THEN RStrip(SubSeq(s, 1, Len(s) - 1)) ELSE s
Strip(s) == RStrip(LStrip(s))

Digits == <<"0", "1", "2", "3", "4", "5", "6", "7", "8", "9">>
IsDigit(c) == \E i \in 1..10 : Digits[i] = c
DigitVal(c) == (CHOOSE i \in 1..10 : Digits[i] = c) - 1

\* The decimal literals float() is modelled on: [-]d[.d[d[d]]], blanks around
\* them allowed.  The value is in thousandths.
IsFloatLiteral(s0) ==
    LET s == Strip(s0)
        u == IF s # <<>> /\ Head(s) = "-" THEN Tail(s) ELSE s
    IN  /\ Len(u) \in {1, 3, 4, 5}
        /\ IsDigit(u[1])
        /\ Len(u) > 1 => /\ u[2] = "."
                         /\ \A i \in 3..Len(u) : IsDigit(u[i])

FloatOfLiteral(s0) ==
    LET s == Strip(s0)
        neg == s # <<>> /\ Head(s) = "-"
        u == IF neg THEN Tail(s) ELSE s
        d(i) == IF i <= Len(u) THEN DigitVal(u[i]) ELSE 0
        v == 1000 * d(1) + 100 * d(3) + 10 * d(4) + d(5)
    IN  IF neg THEN 0 - v ELSE v

\* The value of result.get("confidence", 0.0): a JSON number (in thousandths),
\* a JSON string, true or false, null, or the key missing.
NumConf(n) == [kind |-> "num", num |-> n, str |-> <<>>]
BoolConf(b) == [kind |-> "bool", num |-> IF b THEN 1 ELSE 0, str |-> <<>>]
StrConf(s) == [kind |-> "str", num |-> 0, str |-> s]
NullConf   == [kind |-> "null", num |-> 0, str |-> <<>>]
NoConf     == [kind |-> "missing", num |-> 0, str |-> <<>>]

High   == <<"h", "i", "g", "h">>
Medium == <<"m", "e", "d", "i", "u", "m">>
Low    == <<"l", "o", "w">>

\* lines 99-114 with .lower() left out of line 104
NormConfidence_CaseSensitive(raw) ==
    IF raw.kind = "num" THEN raw.num
    ELSE IF raw.kind = "bool" THEN 1000 * raw.num
    ELSE IF raw.kind = "missing" THEN 0
    ELSE IF raw.kind = "str" /\ IsFloatLiteral(raw.str) THEN FloatOfLiteral(raw.str)
    ELSE IF raw.kind = "str" THEN
        LET norm == Strip(raw.str)
        IN  IF norm = High THEN 900
            ELSE IF norm = Medium THEN 600
            ELSE IF norm = Low THEN 300
            ELSE 0
    ELSE 0

\* classify, lines 99-114; the result is in thousandths.  float() takes a
\* number, a bool (True is 1.0) and a string holding a decimal literal.
NormConfidence(raw) ==
    IF raw.kind = "num" THEN raw.num
    ELSE IF raw.kind = "bool" THEN 1000 * raw.num
    ELSE IF raw.kind = "missing" THEN 0
    ELSE IF raw.kind = "str" /\ IsFloatLiteral(raw.str) THEN FloatOfLiteral(raw.str)
    ELSE IF raw.kind = "str" THEN
        LET norm == Lower(Strip(raw.str))
        IN  IF norm = High THEN 900
            ELSE IF norm = Medium THEN 600
            ELSE IF norm = Low THEN 300
            ELSE 0
    ELSE 0

\* What _call_azure_openai and _extract_json give: the call or the parse
\* raises, or a JSON object whose missing keys read as None.
RaisedResponse    == [kind |-> "raise", category |-> None, subcategory |-> None,
                      impact |-> None, urgency |-> None, confidence |-> NoConf]
MalformedResponse == [kind |-> "malformed", category |-> None, subcategory |-> None,
                      impact |-> None, urgency |-> None, confidence |-> NoConf]
JsonResponse(c, s, i, u, conf) ==
    [kind |-> "json", category |-> c, subcategory |-> s, impact |-> i,
     urgency |-> u, confidence |-> conf]

NoDetails == [category |-> None, subcategory |-> None, impact |-> None,
              urgency |-> None, confidence |-> 0]

\* classify, line 118: if subcategory and subcategory not in subcategory_choices
SubcategoryRejected(subcategory, subcategory_choices) ==
    Truthy(subcategory) /\ subcategory \notin subcategory_choices

\* classify, lines 116-123, with the category test left out
Rejected_NoCategoryCheck(r, ch) ==
    \/ SubcategoryRejected(r.subcategory, ch.subcategory)
    \/ r.impact \notin ch.impact
    \/ r.urgency \notin ch.urgency

\* lines 116-123 with a null confidence refused as well
Rejected_NullConfidence(r, ch) ==
    \/ r.category \notin ch.category
    \/ SubcategoryRejected(r.subcategory, ch.subcategory)
    \/ r.impact \notin ch.impact
    \/ r.urgency \notin ch.urgency
    \/ r.confidence.kind = "null"

\* classify, lines 116-123: a ValueError is raised
Rejected(r, ch) ==
    \/ r.category \notin ch.category
    \/ SubcategoryRejected(r.subcategory, ch.subcategory)
    \/ r.impact \notin ch.impact
    \/ r.urgency \notin ch.urgency

\* classify without the test of lines 64-69
Classify_NoEmptyTest(description, ch, resp) ==
    IF resp.kind # "json" \/ Rejected(resp, ch)
    THEN [status |-> "RAISED", called_model |-> TRUE, details |-> NoDetails]
    ELSE [status |-> "SUCCESS", called_model |-> TRUE,
          details |-> [category |-> resp.category,
                       subcategory |-> resp.subcategory,
                       impact |-> resp.impact,
                       urgency |-> resp.urgency,
                       confidence |-> NormConfidence(resp.confidence)]]

\* TaskClassifier.classify.  status "RAISED" stands for an exception leaving
\* classify; called_model tells whether _call_azure_openai was called.
Classify(description, ch, resp) ==
    IF ~Truthy(description)
    THEN [status |-> "FAILED", called_model |-> FALSE, details |-> NoDetails]
    ELSE IF resp.kind # "json" \/ Rejected(resp, ch)
    THEN [status |-> "RAISED", called_model |-> TRUE, details |-> NoDetails]
    ELSE [status |-> "SUCCESS", called_model |-> TRUE,
          details |-> [category |-> resp.category,
                       subcategory |-> resp.subcategory,
                       impact |-> resp.impact,
                       urgency |-> resp.urgency,
                       confidence |-> NormConfidence(resp.confidence)]]

----------------------------------------------------------------------------
(* connectors/servicenow_connector.py *)

\* The incident table: the fields of a ticket that an update can set, and
\* those the query of get_new_incidents tests
NewTicket(category) ==
    [category |-> category, subcategory |-> Empty, impact |-> <<"3">>,
     urgency |-> <<"3">>, u_auto_classified |-> "false",
     u_auto_classification_category |-> Empty,
     state |-> "1", assignment_group |-> Empty]

\* the query asking for tickets not yet classified as well
Selected_Unclassified(ticket) ==
    /\ ticket.state \in {"1", "2"}
    /\ ticket.assignment_group = Empty
    /\ ticket.u_auto_classified = "false"

\* get_new_incidents, line 88: state=1^ORstate=2^assignment_groupISEMPTY
Selected(ticket) ==
    /\ ticket.state \in {"1", "2"}
    /\ ticket.assignment_group = Empty

\* The tickets a fetch can return, in the order of the ticket source: the
\* selected ones of the incident table, or all of the mock's test_data
Source(mock, table) ==
    SelectSeq([t \in TicketIds |-> t], LAMBDA t : mock \/ Selected(table[t]))

\* Ticket 1 has never been categorised, the others were categorised by hand
InitTickets == [t \in TicketIds |-> NewTicket(IF t = 1 THEN Empty ELSE CatOld)]

\* The work_notes texts, by what they say
AutoNote(category, confidence) ==
    [kind |-> "auto", category |-> category, confidence |-> confidence,
     restored |-> None, was |-> None]
RollbackNote(old_category, new_category) ==
    [kind |-> "rollback", category |-> None, confidence |-> 0,
     restored |-> old_category, was |-> new_category]
NoNote == [kind |-> "none", category |-> None, confidence |-> 0,
           restored |-> None, was |-> None]

\* update_incident, line 255: snow_category[:40]
Truncate(s) == SubSeq(s, 1, Min(Len(s), MaxCategoryLen))

Field(k, present, v) == IF present THEN k :> v ELSE <<>>

\* update_incident, lines 240-267: update_data.  confidence is in thousandths,
\* u_confidence_score in hundredths of a percent.
UpdateData(category, confidence, work_notes, snow_category, subcategory, impact, urgency, now) ==
    [u_auto_classification_category |-> category,
     u_confidence_score |-> confidence * 10,
     u_auto_classified |-> "true",
     u_classification_timestamp |-> now,
     work_notes |-> IF work_notes.kind # "none" THEN work_notes
                    ELSE AutoNote(category, confidence)]
    @@ Field("category", Truthy(snow_category), Truncate(snow_category))
    @@ Field("subcategory", Truthy(subcategory), subcategory)
    @@ Field("impact", Truthy(impact), impact)
    @@ Field("urgency", Truthy(urgency), urgency)

\* The ticket system applying a PATCH it accepts
ApplyPatch(ticket, data) ==
    [k \in DOMAIN ticket |-> IF k \in DOMAIN data THEN data[k] ELSE ticket[k]]

\* What a PATCH can come to: answered 200; answered with another status and
\* not applied; or applied while the answer is lost (timeout), which
\* update_incident reports as a failure like the second.
PatchOutcomes == {"ok", "rejected", "lost"}
PatchApplied(outcome) == outcome \in {"ok", "lost"}
PatchReturns(outcome) == outcome = "ok"

\* The keyword arguments of the two callers and the parameters of the two
\* update_incident methods: a call binds when every keyword is a parameter.
SchedulerKwargs == {"ticket_id", "category", "confidence", "work_notes",
                    "snow_category", "subcategory", "impact", "urgency"}
RollbackKwargs  == {"ticket_id", "category", "confidence", "work_notes",
                    "snow_category"}
RealUpdateParams == {"ticket_id", "category", "confidence", "assignment_group",
                     "work_notes", "snow_category", "subcategory", "impact",
                     "urgency"}
MockUpdateParams == {"ticket_id", "category", "confidence", "assignment_group",
                     "work_notes", "snow_category"}
Binds(kwargs, params) == kwargs \subseteq params

----------------------------------------------------------------------------
(* tools/output_writer.py *)

\* What csv writes for a value: None is written as the empty cell
CsvCell(v) == IF v = None THEN Empty ELSE v

\* append_audit_entry, lines 133-141: the row written
AuditRow(ticket_number, ticket_id, old_category, new_category, confidence, run_timestamp, dry) ==
    [run_timestamp |-> run_timestamp, ticket_number |-> ticket_number,
     ticket_id |-> ticket_id, old_category |-> OrEmpty(old_category),
     new_category |-> CsvCell(new_category), confidence |-> confidence,
     dry_run |-> dry]

\* append_task_result, lines 23-31: the record appended
ResultRecord(ticket_id, input_text, category, confidence, now) ==
    [timestamp |-> now, ticket_id |-> ticket_id, input_text |-> input_text,
     category |-> category, confidence |-> confidence]

\* What a file of the outputs directory holds: nothing (there is no such
\* file), a JSON array of records, no text at all, a text that is not a JSON
\* array, or the beginning of a JSON text whose writing was cut short
Absent    == [kind |-> "absent", recs |-> <<>>]
Arr(recs) == [kind |-> "array", recs |-> recs]
Blank     == [kind |-> "blank", recs |-> <<>>]
Garbage   == [kind |-> "garbage", recs |-> <<>>]
Partial   == [kind |-> "partial", recs |-> <<>>]

\* append_task_result, lines 20 and 56: the feed and its latest snapshot
output_json == "task_classifier_results.json"
latest_file == "task_classifier_results_latest.json"

\* line 74 naming the feed itself
temp_path_InPlace == output_json

\* append_task_result, line 74
temp_path == "task_classifier_results.json.tmp"

FileNames == {output_json, latest_file, "task_classifier_results.json.tmp"}

\* append_task_result, lines 35-50: the array read from the feed; a missing
\* file, an empty one and a text that is no array all give []
ReadFeed(content) == IF content.kind = "array" THEN content.recs ELSE <<>>

\* The outputs directory with nothing in it
EmptyDir ==
    [files |-> [n \in FileNames |-> Absent],
     archive |-> [ts \in 1..MaxClock |-> Absent],
     csv |-> <<>>]

NoRecord == [timestamp |-> 0, ticket_id |-> 0, input_text |-> Empty,
             category |-> None, confidence |-> 0]

\* No append_task_result call is followed step by step
WriterStart ==
    /\ w_pc = "idle"
    /\ w_fs = EmptyDir
    /\ w_data = <<>>
    /\ w_record = NoRecord
    /\ w_before = Absent
    /\ w_appended = <<>>
    /\ w_calls = 0

----------------------------------------------------------------------------
(* The environment of one cycle *)

\* short_description of a fetched incident
Description  == <<"d">>
Descriptions == {Empty, Description}

\* What the sys_choice and dl_u_priority queries can answer ({} also stands
\* for a failed query, which returns [])
CategoryVocabs == {{}, {CatNet, CatLong}}
SubVocabs      == {{}, {SubVpn}}
PriorityVocabs == {[impact |-> {}, urgency |-> {}],
                   [impact |-> {One}, urgency |-> {}],
                   [impact |-> {One}, urgency |-> {One}]}

\* What the model can answer to one request
ModelResponses ==
    { JsonResponse(CatNet, SubVpn, One, One, NumConf(730)),
      JsonResponse(CatLong, Empty, One, One, StrConf(<<"H", "i", "g", "h">>)),
      JsonResponse(Hardware, None, One, One, NumConf(900)),
      JsonResponse(CatNet, SubBad, One, One, NumConf(900)),
      JsonResponse(CatNet, None, Nine, One, NumConf(900)),
      JsonResponse(CatNet, None, One, Nine, NumConf(900)),
      MalformedResponse,
      RaisedResponse }

Limits      == {1, DefaultLimit}   \* process_tickets(limit=...)
SampleSizes == {0, 1}              \* process_tickets(sample_size=...), 0 for None

NoPath    == 0
NoChoices == [category |-> {}, subcategory |-> {}, impact |-> {}, urgency |-> {}]
ZeroStats == [retrieved |-> 0, classified |-> 0, updated |-> 0, errors |-> 0]
NoFiles   == [ts \in 1..MaxClock |-> <<>>]
Pending   == [status |-> "PENDING", called_model |-> FALSE, details |-> NoDetails]
NoTotals  == [classified |-> 0, updated |-> 0, errors |-> 0, fatal |-> 0]
NoInput   == [description |-> None, choices |-> NoChoices, response |-> RaisedResponse]

----------------------------------------------------------------------------
(* app/scheduler.py *)

\* __init__, lines 45-49: the connector's dry_run
ConnectorDryRun(mock, dry) == IF mock THEN TRUE ELSE dry

\* The dry_run argument of __init__
NoArg    == "None"
BoolArg(b) == IF b THEN "True" ELSE "False"

\* the environment variable taking precedence over the argument
ResolveDryRun_EnvFirst(arg, env) ==
    IF env # None THEN Lower(env) = <<"t", "r", "u", "e">>
    ELSE IF arg = NoArg THEN TRUE
    ELSE arg = "True"

\* __init__, lines 39-43: os.getenv('DRY_RUN', 'true').lower() == 'true'
\* when the argument is None, bool(dry_run) otherwise; env None stands for
\* an unset variable
ResolveDryRun(arg, env) ==
    IF arg = NoArg
    THEN Lower(IF env = None THEN <<"t", "r", "u", "e">> ELSE env)
            = <<"t", "r", "u", "e">>
    ELSE arg = "True"

\* TaskParserScheduler(use_mock=mock, dry_run=dry) called by a test or script
DirectCall(mock, dry) ==
    [entry |-> "direct", use_mock |-> mock, dry_run |-> BoolArg(dry),
     env |-> None, commit |-> FALSE]

\* The scheduler was built by a direct call
Configured ==
    /\ cf_in = DirectCall(use_mock, dry_run)
    /\ cf_pc = "built"

\* get_new_incidents: the mock answers from test_data, the connector sends a
\* GET to the incident table
FetchRequests(mock) == IF mock THEN {} ELSE {"GET incident"}

\* process_tickets, lines 108-110: get_choice_values and
\* get_priority_lookup_values, which MockServiceNowConnector inherits from
\* ServiceNowConnector, each send GETs to base_url
ChoiceRequests == {"GET sys_choice", "GET dl_u_priority"}

\* update_incident: the mock stores the update, the connector in dry run only
\* logs, the connector otherwise sends a PATCH
UpdateRequests(mock, dry) == IF mock \/ dry THEN {} ELSE {"PATCH incident"}

\* Nothing has run yet
StartState ==
    /\ tickets = InitTickets
    /\ clock = 1
    /\ pc = "idle"
    /\ cycles = 0
    /\ incidents = <<>>
    /\ idx = 0
    /\ choices = NoChoices
    /\ cycle_stats = ZeroStats
    /\ stats = [total_processed |-> 0, successfully_updated |-> 0, errors |-> 0]
    /\ run_ts = 0
    /\ audit_csv_path = NoPath
    /\ details = NoDetails
    /\ results = <<>>
    /\ auditFiles = NoFiles
    /\ calls = <<>>
    /\ patches = <<>>
    /\ class_errors = 0
    /\ audit_failed = FALSE
    /\ outcomes = <<>>
    /\ audited = <<>>
    /\ succeeded = <<>>
    /\ rb_pc = "idle"
    /\ rb_commit = FALSE
    /\ rb_file = NoPath
    /\ rb_actions = <<>>
    /\ rb_idx = 0
    /\ rb_prints = 0
    /\ rb_tickets0 = InitTickets
    /\ rollbacks = 0
    /\ faults = 0
    /\ mock_updates = <<>>
    /\ model_calls = <<>>
    /\ summary_logged = FALSE
    /\ totals = NoTotals
    /\ final_stats_printed = FALSE
    /\ sample_size = 0
    /\ contacts = {}

\* TaskParserScheduler.__init__, lines 39-59
Init ==
    /\ dry_run \in BOOLEAN
    /\ use_mock \in BOOLEAN
    /\ connector_dry_run = ConnectorDryRun(use_mock, dry_run)
    /\ Configured
    /\ StartState
    /\ WriterStart
    /\ cl_in = NoInput
    /\ cl_out = Pending

\* incidents[-sample_size:]
Sample_Tail(fetched, size) ==
    IF size > 0
    THEN SubSeq(fetched, Len(fetched) - Min(size, Len(fetched)) + 1, Len(fetched))
    ELSE fetched

\* process_tickets, lines 101-103: incidents[:sample_size]
Sample(fetched, size) ==
    IF size > 0 THEN SubSeq(fetched, 1, Min(size, Len(fetched)))
    ELSE fetched

\* The sums of the dictionaries returned so far, with one more
Returned(cs) ==
    [totals EXCEPT !.classified = @ + cs.classified,
                   !.updated = @ + cs.updated,
                   !.errors = @ + cs.errors]

\* process_tickets returns cycle_stats
Return ==
    /\ pc' = "returned"
    /\ UNCHANGED <<incidents, idx, choices, run_ts, audit_csv_path, details,
                   class_errors, audit_failed, succeeded, calls, patches,
                   outcomes, audited>>

\* The caller is back in control: the locals of process_tickets are gone
CycleOver ==
    /\ pc = "returned"
    /\ pc' = "idle"
    /\ cycle_stats' = ZeroStats
    /\ incidents' = <<>>
    /\ idx' = 0
    /\ choices' = NoChoices
    /\ run_ts' = 0
    /\ audit_csv_path' = NoPath
    /\ details' = NoDetails
    /\ class_errors' = 0
    /\ audit_failed' = FALSE
    /\ outcomes' = <<>>
    /\ audited' = <<>>
    /\ succeeded' = <<>>
    /\ calls' = <<>>
    /\ patches' = <<>>
    /\ model_calls' = <<>>
    /\ summary_logged' = FALSE
    /\ sample_size' = 0
    /\ contacts' = {}
    /\ UNCHANGED <<cfgVars, tickets, clock, cycles, stats, results, auditFiles,
                   rbVars, faults, mock_updates, clVars, wrVars, totals,
                   final_stats_printed>>

\* line 96 finding every answer worth a cycle
NoIncidents_Never(fetched) == FALSE

\* process_tickets, line 96
NoIncidents(fetched) == fetched = <<>>

\* process_tickets, lines 84-105: get_new_incidents answers with the first n
\* incidents (n = 0 also stands for a failed query); the mock answers with
\* test_data[:limit], whose entries carry no category.
Fetch ==
    /\ pc = "idle"
    /\ rb_pc = "idle"
    /\ cycles < MaxCycles
    /\ contacts' = FetchRequests(use_mock)
    /\ \E limit \in Limits, ss \in SampleSizes :
       \E n \in 0..Min(limit, Len(Source(use_mock, tickets))) :
       \E descs \in [1..n -> Descriptions] :
          LET source  == Source(use_mock, tickets)
              fetched == [i \in 1..n |->
                            [sys_id |-> source[i], number |-> source[i],
                             short_description |-> descs[i],
                             category |-> IF use_mock THEN None
                                          ELSE tickets[source[i]].category]]
          IN  /\ sample_size' = ss
              /\ cycle_stats' = [ZeroStats EXCEPT !.retrieved = Len(fetched)]
              /\ IF NoIncidents(fetched)
                 THEN /\ Return
                      /\ totals' = Returned(cycle_stats')
                 ELSE /\ incidents' = Sample(fetched, ss)
                      /\ pc' = "vocab"
                      /\ UNCHANGED <<idx, choices, run_ts, audit_csv_path,
                                     details, class_errors, audit_failed,
                                     outcomes, audited,
                                     succeeded, calls, patches, totals>>
    /\ cycles' = cycles + 1
    /\ UNCHANGED <<cfgVars, tickets, clock, stats, results, auditFiles, rbVars,
                   faults, mock_updates, clVars, wrVars, model_calls,
                   summary_logged, final_stats_printed>>

\* line 114 testing the category list alone
MissingChoices_CategoryOnly(ch) == ch.category = {}

\* process_tickets, line 114
MissingChoices(ch) == ch.category = {} \/ ch.impact = {} \/ ch.urgency = {}

\* process_tickets, lines 107-124: the choices are loaded; the cycle is given
\* up (with the lists it loaded in hand) when one of the three required lists
\* is empty, else the audit path is fixed from the clock.
LoadChoices ==
    /\ pc = "vocab"
    /\ contacts' = contacts \cup ChoiceRequests
    /\ \E cc \in CategoryVocabs, sc \in SubVocabs, pv \in PriorityVocabs :
          LET ch == [category |-> cc, subcategory |-> sc,
                     impact |-> pv.impact, urgency |-> pv.urgency]
          IN  IF MissingChoices(ch)
              THEN /\ choices' = ch
                   /\ pc' = "returned"
                   /\ totals' = Returned(cycle_stats)
                   /\ UNCHANGED <<incidents, idx, run_ts, audit_csv_path,
                                  details, class_errors, audit_failed,
                                  succeeded, calls, patches, outcomes, audited>>
              ELSE /\ choices' = ch
                   /\ run_ts' = clock
                   /\ audit_csv_path' = IF dry_run THEN NoPath ELSE clock
                   /\ idx' = 1
                   /\ pc' = "loop"
                   /\ UNCHANGED <<incidents, details, class_errors,
                                  audit_failed, succeeded, calls, patches,
                                  outcomes, audited, totals>>
    /\ UNCHANGED <<cfgVars, tickets, clock, cycles, cycle_stats, stats, results,
                   auditFiles, rbVars, faults, mock_updates, clVars, wrVars,
                   model_calls, summary_logged, final_stats_printed,
                   sample_size>>

\* the outermost handler raising the exception again
AfterFatal_Escapes == "escaped"

\* process_tickets, lines 232-245: the outermost handler logs the error and
\* falls through to the summary and the return
AfterFatal == "returned"

\* process_tickets, lines 107-123 and 232-245: the choices are loaded and
\* complete, run_ts is taken, os.makedirs raises, the fatal handler counts one
\* error in the cumulative stats, the summary is logged and cycle_stats
\* returned
AuditDirFails ==
    /\ pc = "vocab"
    /\ contacts' = contacts \cup ChoiceRequests
    /\ ~dry_run
    /\ faults < MaxFaults
    /\ faults' = faults + 1
    /\ \E cc \in CategoryVocabs, sc \in SubVocabs, pv \in PriorityVocabs :
          LET ch == [category |-> cc, subcategory |-> sc,
                     impact |-> pv.impact, urgency |-> pv.urgency]
          IN  /\ ~MissingChoices(ch)
              /\ choices' = ch
    /\ run_ts' = clock
    /\ stats' = [stats EXCEPT !.errors = @ + 1]
    /\ totals' = [Returned(cycle_stats) EXCEPT !.fatal = @ + 1]
    /\ summary_logged' = TRUE
    /\ pc' = AfterFatal
    /\ UNCHANGED <<cfgVars, tickets, clock, cycles, incidents, idx,
                   cycle_stats, audit_csv_path, details, results,
                   auditFiles, calls, patches, class_errors, audit_failed,
                   outcomes, audited,
                   succeeded, rbVars, mock_updates, clVars, wrVars,
                   model_calls, final_stats_printed,
                   sample_size>>

\* line 149 with the test always passing
Proceeds_Always(result) == result.status # "RAISED"

\* process_tickets, line 149: result["status"] != "SUCCESS" skips the incident;
\* an exception leaving classify skips it through the handler of line 222
Proceeds(result) == result.status = "SUCCESS"

\* line 163 left out
CountClassified_Forgotten(cs) == cs

\* process_tickets, line 163
CountClassified(cs) == [cs EXCEPT !.classified = @ + 1]

\* lines 151, 220 and 224 left out
CountError_Forgotten(cs) == cs

\* process_tickets, lines 151, 220 and 224
CountError(cs) == [cs EXCEPT !.errors = @ + 1]

\* line 199 left out
CountUpdated_Forgotten(cs) == cs

\* process_tickets, line 199
CountUpdated(cs) == [cs EXCEPT !.updated = @ + 1]

\* the loop given up after the incident in hand
NextIncident_Aborts ==
    /\ idx' = Len(incidents) + 1
    /\ pc' = "loop"
    /\ details' = NoDetails

\* the loop taking the same incident again
NextIncident_Retries ==
    /\ idx' = idx
    /\ pc' = "loop"
    /\ details' = NoDetails

\* process_tickets, line 127: the loop goes on with the next incident
NextIncident ==
    /\ idx' = idx + 1
    /\ pc' = "loop"
    /\ details' = NoDetails

\* process_tickets, lines 127-163 and 222-225: one incident is read and
\* classified; a failure, returned or raised, counts one error
ClassifyIncident ==
    /\ pc = "loop"
    /\ idx <= Len(incidents)
    /\ \E resp \in ModelResponses :
          LET result == Classify(incidents[idx].short_description, choices, resp)
          IN  /\ outcomes' = Append(outcomes, result.status = "SUCCESS")
              /\ model_calls' = IF result.called_model
                                THEN Append(model_calls, incidents[idx].sys_id)
                                ELSE model_calls
              /\ IF Proceeds(result)
                 THEN /\ stats.total_processed + cycle_stats.classified
                              < MaxClassified
                      /\ cycle_stats' = CountClassified(cycle_stats)
                      /\ details' = result.details
                      /\ pc' = "persist"
                      /\ UNCHANGED <<idx, class_errors>>
                 ELSE /\ cycle_stats' = CountError(cycle_stats)
                      /\ class_errors' = class_errors + 1
                      /\ NextIncident
    /\ UNCHANGED <<cfgVars, tickets, clock, cycles, incidents, choices, stats,
                   run_ts, audit_csv_path, results, auditFiles, calls, patches,
                   audit_failed, succeeded, audited, rbVars, faults,
                   mock_updates, clVars, wrVars, summary_logged, totals,
                   final_stats_printed,
                   sample_size, contacts>>

\* What a call of append_task_result comes to, as its caller sees it: the
\* record is appended to the array read from the feed; the feed could not be
\* read or parsed, and the record alone is written (lines 48-50); or the call
\* raises before the feed is replaced.
PersistOutcomes == {"appended", "fresh", "raised"}

\* the record written twice
FeedAfter_Twice(feed, record, outcome) == Append(Append(feed, record), record)

\* append_task_result, lines 33-77: the array in the feed after the call
FeedAfter(feed, record, outcome) ==
    IF outcome = "appended" THEN Append(feed, record)
    ELSE IF outcome = "fresh" THEN <<record>>
    ELSE feed

\* lines 176-177 giving the incident up
AfterPersist_Skips(raised) == IF raised THEN "loop" ELSE "update"

\* process_tickets, lines 176-177: an exception of append_task_result is
\* logged, and the update follows in any case
AfterPersist(raised) == "update"

\* The record of the incident in hand
RecordInHand ==
    ResultRecord(incidents[idx].sys_id, incidents[idx].short_description,
                 details.category, details.confidence, clock)

\* process_tickets, lines 165-177: append_task_result is called
PersistResult ==
    /\ pc = "persist"
    /\ \E outcome \in PersistOutcomes :
          /\ outcome # "appended" => faults < MaxFaults
          /\ faults' = IF outcome = "appended" THEN faults ELSE faults + 1
          /\ results' = FeedAfter(results, RecordInHand, outcome)
          /\ pc' = AfterPersist(outcome = "raised")
    /\ UNCHANGED <<cfgVars, tickets, clock, cycles, incidents, idx, choices,
                   cycle_stats, stats, run_ts, audit_csv_path, details,
                   auditFiles, calls, patches, class_errors, audit_failed,
                   outcomes, audited,
                   succeeded, rbVars, mock_updates, clVars, wrVars, obsVars,
                   sample_size, contacts>>

\* One update_incident call as the caller sees it
Call(ticket_id, result, network) ==
    [ticket_id |-> ticket_id, result |-> result, network |-> network]

\* One PATCH request
Patch(ticket_id, data, outcome) ==
    [ticket_id |-> ticket_id, data |-> data, outcome |-> outcome]

\* process_tickets, lines 197-220: what follows the answer of update_incident
AfterUpdate(success) ==
    IF success
    THEN /\ cycle_stats' = CountUpdated(cycle_stats)
         /\ succeeded' =
              IF dry_run THEN succeeded
              ELSE Append(succeeded,
                          [ticket_id |-> incidents[idx].sys_id,
                           old_category |-> incidents[idx].category,
                           new_category |-> details.category])
         /\ IF audit_csv_path # NoPath
            THEN pc' = "audit" /\ UNCHANGED <<idx, details>>
            ELSE NextIncident
    ELSE /\ cycle_stats' = CountError(cycle_stats)
         /\ NextIncident
         /\ UNCHANGED succeeded

\* process_tickets, lines 185-195, and update_incident of the connector in
\* use.  The mock's method does not take the keywords subcategory, impact and
\* urgency: the call raises TypeError, which the handler of line 222 counts.
UpdateIncident ==
    /\ pc = "update"
    /\ contacts' = contacts \cup UpdateRequests(use_mock, connector_dry_run)
    /\ LET ticket_id == incidents[idx].sys_id
           data == UpdateData(details.category, details.confidence,
                              AutoNote(details.category, details.confidence),
                              details.category, details.subcategory,
                              details.impact, details.urgency, clock)
       IN  IF use_mock
           THEN IF Binds(SchedulerKwargs, MockUpdateParams)
                THEN /\ mock_updates' = Append(mock_updates,
                            [ticket_id |-> ticket_id,
                             category |-> details.category,
                             snow_category |-> details.category])
                     /\ calls' = Append(calls, Call(ticket_id, "True", FALSE))
                     /\ AfterUpdate(TRUE)
                     /\ UNCHANGED <<tickets, patches, faults>>
                ELSE /\ calls' = Append(calls, Call(ticket_id, "raised", FALSE))
                     /\ cycle_stats' = CountError(cycle_stats)
                     /\ NextIncident
                     /\ UNCHANGED <<tickets, patches, faults, mock_updates,
                                    succeeded>>
           ELSE IF connector_dry_run
           THEN /\ calls' = Append(calls, Call(ticket_id, "True", FALSE))
                /\ AfterUpdate(TRUE)
                /\ UNCHANGED <<tickets, patches, faults, mock_updates>>
           ELSE \E outcome \in PatchOutcomes :
                /\ outcome # "ok" => faults < MaxFaults
                /\ faults' = IF outcome = "ok" THEN faults ELSE faults + 1
                /\ patches' = Append(patches, Patch(ticket_id, data, outcome))
                /\ tickets' = IF PatchApplied(outcome)
                              THEN [tickets EXCEPT ![ticket_id] = ApplyPatch(@, data)]
                              ELSE tickets
                /\ calls' = Append(calls,
                        Call(ticket_id,
                             IF PatchReturns(outcome) THEN "True" ELSE "False",
                             TRUE))
                /\ AfterUpdate(PatchReturns(outcome))
                /\ UNCHANGED mock_updates
    /\ UNCHANGED <<cfgVars, clock, cycles, incidents, choices, stats, run_ts,
                   audit_csv_path, results, auditFiles, class_errors,
                   audit_failed, outcomes, audited, rbVars, clVars, wrVars, obsVars,
                   sample_size>>

\* process_tickets, lines 201-216: append_audit_entry appends the row to the
\* cycle's file, or raises and is only logged
WriteAudit ==
    /\ pc = "audit"
    /\ LET row == AuditRow(incidents[idx].number, incidents[idx].sys_id,
                           incidents[idx].category, details.category,
                           details.confidence, run_ts, dry_run)
       IN  \/ /\ auditFiles' = [auditFiles EXCEPT ![audit_csv_path] = Append(@, row)]
              /\ audited' = Append(audited, row)
              /\ UNCHANGED <<faults, audit_failed>>
           \/ /\ faults < MaxFaults
              /\ faults' = faults + 1
              /\ audit_failed' = TRUE
              /\ UNCHANGED <<auditFiles, audited>>
    /\ NextIncident
    /\ UNCHANGED <<cfgVars, tickets, clock, cycles, incidents, choices,
                   cycle_stats, stats, run_ts, audit_csv_path, results, calls,
                   patches, class_errors, succeeded, outcomes, rbVars, mock_updates,
                   clVars, wrVars, obsVars,
                   sample_size, contacts>>

\* lines 228-230 without the last of them
Accumulate_NoErrors(st, cs) ==
    [total_processed |-> st.total_processed + cs.classified,
     successfully_updated |-> st.successfully_updated + cs.updated,
     errors |-> st.errors]

\* process_tickets, lines 228-230
Accumulate(st, cs) ==
    [total_processed |-> st.total_processed + cs.classified,
     successfully_updated |-> st.successfully_updated + cs.updated,
     errors |-> st.errors + cs.errors]

\* process_tickets, lines 227-245: the loop is over, the cycle's counters are
\* added to the cumulative ones, the summary is logged and cycle_stats returned
Aggregate ==
    /\ pc = "loop"
    /\ idx > Len(incidents)
    /\ stats' = Accumulate(stats, cycle_stats)
    /\ totals' = Returned(cycle_stats)
    /\ summary_logged' = TRUE
    /\ pc' = "returned"
    /\ UNCHANGED <<cfgVars, tickets, clock, cycles, incidents, idx, choices,
                   cycle_stats, run_ts, audit_csv_path, details, results,
                   auditFiles, calls, patches, class_errors, audit_failed,
                   outcomes, audited,
                   succeeded, rbVars, faults, mock_updates, clVars, wrVars,
                   model_calls, final_stats_printed,
                   sample_size, contacts>>

\* Time passes between two cycles
Tick ==
    /\ pc = "idle"
    /\ rb_pc = "idle"
    /\ cycles >= 1
    /\ clock < MaxClock
    /\ clock' = clock + 1
    /\ UNCHANGED <<cfgVars, tickets, cycVars, stats, results, auditFiles, calls,
                   patches, rbVars, faults, mock_updates, clVars, wrVars, obsVars>>

----------------------------------------------------------------------------
(* tools/rollback_from_audit.py *)

\* lines 42-44 with the test left out
SkipsPatch_Never(commit) == FALSE

\* main, lines 42-44: if not commit: print ...; continue
SkipsPatch(commit) == ~commit

\* the loop giving up at the first failed update
GoesOn_UntilFailure(success) == success

\* main, lines 53-56: the outcome is printed and the loop goes on
GoesOn(success) == TRUE

\* main, lines 26-31: one action per row read by csv.DictReader
ActionOfRow(row) ==
    [ticket_id |-> row.ticket_id, ticket_number |-> row.ticket_number,
     old_category |-> OrEmpty(row.old_category),
     new_category |-> OrEmpty(row.new_category)]

\* main, lines 16-33: the audit file is read, if there is one
RollbackStart ==
    /\ rb_pc = "idle"
    /\ pc = "idle"
    /\ rollbacks < MaxRollbacks
    /\ rollbacks' = rollbacks + 1
    /\ \E f \in 1..MaxClock, commit \in BOOLEAN :
          /\ rb_file' = f
          /\ rb_commit' = commit
          /\ IF auditFiles[f] = <<>>
             THEN /\ rb_pc' = "done"
                  /\ rb_actions' = <<>>
                  /\ rb_idx' = 0
             ELSE /\ rb_pc' = "running"
                  /\ rb_actions' = [i \in 1..Len(auditFiles[f]) |->
                                      ActionOfRow(auditFiles[f][i])]
                  /\ rb_idx' = 1
    /\ rb_prints' = 0
    /\ rb_tickets0' = tickets
    /\ calls' = <<>>
    /\ patches' = <<>>
    /\ UNCHANGED <<cfgVars, tickets, clock, cycVars, stats, results, auditFiles,
                   faults, mock_updates, clVars, wrVars, obsVars>>

\* main, lines 35-56: one action.  The connector was built with
\* dry_run = not commit.
RollbackRow ==
    /\ rb_pc = "running"
    /\ rb_idx <= Len(rb_actions)
    /\ LET a == rb_actions[rb_idx]
           data == UpdateData(OrEmpty(a.old_category), 0,
                              RollbackNote(a.old_category, a.new_category),
                              OrEmpty(a.old_category), None, None, None, clock)
       IN  IF SkipsPatch(rb_commit)
           THEN /\ rb_prints' = rb_prints + 1
                /\ rb_idx' = rb_idx + 1
                /\ UNCHANGED <<tickets, calls, patches, faults>>
           ELSE IF ~rb_commit
           THEN /\ calls' = Append(calls, Call(a.ticket_id, "True", FALSE))
                /\ rb_idx' = IF GoesOn(TRUE) THEN rb_idx + 1 ELSE Len(rb_actions) + 1
                /\ UNCHANGED <<tickets, patches, faults, rb_prints>>
           ELSE \E outcome \in PatchOutcomes :
                /\ outcome # "ok" => faults < MaxFaults
                /\ faults' = IF outcome = "ok" THEN faults ELSE faults + 1
                /\ patches' = Append(patches, Patch(a.ticket_id, data, outcome))
                /\ tickets' = IF PatchApplied(outcome)
                              THEN [tickets EXCEPT ![a.ticket_id] = ApplyPatch(@, data)]
                              ELSE tickets
                /\ calls' = Append(calls,
                        Call(a.ticket_id,
                             IF PatchReturns(outcome) THEN "True" ELSE "False",
                             TRUE))
                /\ rb_idx' = IF GoesOn(PatchReturns(outcome)) THEN rb_idx + 1
                             ELSE Len(rb_actions) + 1
                /\ UNCHANGED rb_prints
    /\ UNCHANGED <<cfgVars, clock, cycVars, stats, results, auditFiles, rb_pc,
                   rb_commit, rb_file, rb_actions, rb_tickets0, rollbacks,
                   mock_updates, clVars, wrVars, obsVars>>

\* main: the loop is over
RollbackEnd ==
    /\ rb_pc = "running"
    /\ rb_idx > Len(rb_actions)
    /\ rb_pc' = "done"
    /\ UNCHANGED <<cfgVars, tickets, clock, cycVars, stats, results, auditFiles,
                   calls, patches, rb_commit, rb_file, rb_actions, rb_idx,
                   rb_prints, rb_tickets0, rollbacks, faults, mock_updates,
                   clVars, wrVars, obsVars>>

\* The rollback process exits
RollbackExit ==
    /\ rb_pc = "done"
    /\ rb_pc' = "idle"
    /\ rb_commit' = FALSE
    /\ rb_file' = NoPath
    /\ rb_actions' = <<>>
    /\ rb_idx' = 0
    /\ rb_prints' = 0
    /\ rb_tickets0' = InitTickets
    /\ calls' = <<>>
    /\ patches' = <<>>
    /\ UNCHANGED <<cfgVars, tickets, clock, cycVars, stats, results, auditFiles,
                   rollbacks, faults, mock_updates, clVars, wrVars, obsVars>>

----------------------------------------------------------------------------
(* The scheduler's cycles and the rollback tool *)

\* start: the interrupt of the operator is handled by the try statement that
\* encloses the scheduled cycles and the waits between them, and by nothing
\* around the initial cycle or inside process_tickets.
InsideTry == cycles > 1 \/ (cycles = 1 /\ pc = "idle")

\* KeyboardInterrupt reaches the scheduler: the statement in progress is
\* abandoned and the process leaves start.
Stop ==
    /\ pc \notin {"exited", "escaped"}
    /\ rb_pc = "idle"
    /\ pc' = "exited"
    /\ final_stats_printed' = InsideTry
    /\ UNCHANGED <<cfgVars, tickets, clock, cycles, incidents, idx, choices,
                   cycle_stats, run_ts, audit_csv_path, details, stats,
                   results, auditFiles, calls, patches, class_errors,
                   audit_failed, outcomes, audited, succeeded, rbVars, faults,
                   mock_updates, clVars, wrVars, model_calls, summary_logged,
                   totals,
                   sample_size, contacts>>

Next ==
    \/ Fetch
    \/ LoadChoices
    \/ AuditDirFails
    \/ ClassifyIncident
    \/ PersistResult
    \/ UpdateIncident
    \/ WriteAudit
    \/ Aggregate
    \/ CycleOver
    \/ Tick
    \/ Stop
    \/ RollbackStart
    \/ RollbackRow
    \/ RollbackEnd
    \/ RollbackExit

Spec == Init /\ [][Next]_vars

\* process_tickets is one thread of straight-line code whose remote calls
\* carry timeouts: once a cycle has begun, its next statement is executed
\* unless the operator stops the process, and a cycle that has returned
\* gives control back to start.
CycleStep ==
    \/ LoadChoices
    \/ AuditDirFails
    \/ ClassifyIncident
    \/ PersistResult
    \/ UpdateIncident
    \/ WriteAudit
    \/ Aggregate
    \/ CycleOver

FairSpec == Init /\ [][Next]_vars /\ WF_vars(CycleStep)

----------------------------------------------------------------------------
(* classify on its own: every argument and every answer of the model *)

\* The confidence values the model's answer can carry
ClassifyConfidences ==
    { NumConf(730), NumConf(1500), NumConf(0 - 200), NullConf, NoConf,
      BoolConf(TRUE),
      StrConf(<<"H", "i", "g", "h">>),
      StrConf(<<"M", "E", "D", "I", "U", "M">>),
      StrConf(<<"l", "o", "w">>),
      StrConf(<<" ", "h", "i", "g", "h", " ">>),
      StrConf(<<"0", ".", "7", "3">>),
      StrConf(<<"n", "/", "a">>) }

ClassifyResponses ==
    { JsonResponse(c, s, i, u, conf) :
        c \in {None, CatNet, CatLong, Hardware},
        s \in {None, Empty, SubVpn, SubBad},
        i \in {None, One, Nine},
        u \in {None, One, Nine},
        conf \in ClassifyConfidences }
    \cup {MalformedResponse, RaisedResponse}

ClassifyInputs ==
    [description : {Empty, Description},
     choices : [category : {{CatNet}, {CatNet, CatLong}},
                subcategory : SubVocabs,
                impact : {{One}},
                urgency : {{One}, {One, Nine}}],
     response : ClassifyResponses]

InitClassify ==
    /\ dry_run = TRUE
    /\ use_mock = FALSE
    /\ connector_dry_run = TRUE
    /\ Configured
    /\ StartState
    /\ WriterStart
    /\ cl_in \in ClassifyInputs
    /\ cl_out = Pending

RunClassify ==
    /\ cl_out = Pending
    /\ cl_out' = Classify(cl_in.description, cl_in.choices, cl_in.response)
    /\ UNCHANGED <<cfgVars, tickets, clock, cycVars, stats, results, auditFiles,
                   calls, patches, rbVars, faults, mock_updates, cl_in,
                   wrVars, obsVars>>

NextClassify == RunClassify

SpecClassify == InitClassify /\ [][NextClassify]_vars

----------------------------------------------------------------------------
(* Building the scheduler: app/scheduler.py and tests/run_task_classifier_snow.py *)

\* Values of the DRY_RUN environment variable; None for unset
EnvValues ==
    { None,
      <<"t", "r", "u", "e">>, <<"T", "r", "u", "e">>, <<"T", "R", "U", "E">>,
      <<"f", "a", "l", "s", "e">>, <<"F", "a", "l", "s", "e">>,
      <<"1">>, Empty }

\* The ways a scheduler is built: a direct call, main of the single-cycle
\* runner with or without --commit, process_json_file, and the production
\* branch of the scheduler's main block
ConfigInputs ==
    [entry : {"direct"}, use_mock : BOOLEAN,
     dry_run : {NoArg, "True", "False"}, env : EnvValues, commit : {FALSE}]
    \cup
    [entry : {"runner"}, use_mock : {FALSE}, dry_run : {NoArg},
     env : EnvValues, commit : BOOLEAN]
    \cup
    [entry : {"json_file"}, use_mock : {TRUE}, dry_run : {NoArg},
     env : EnvValues, commit : {FALSE}]
    \cup
    [entry : {"production"}, use_mock : {FALSE}, dry_run : {NoArg},
     env : EnvValues, commit : {FALSE}]

\* The arguments the entry point passes to TaskParserScheduler:
\* run_task_classifier_snow.main, lines 33-38; process_json_file, line 323;
\* scheduler.py, line 350
CtorArgs(in) ==
    CASE in.entry = "runner" ->
            [use_mock |-> FALSE, dry_run |-> BoolArg(~in.commit)]
      [] in.entry = "json_file" -> [use_mock |-> TRUE, dry_run |-> NoArg]
      [] in.entry = "production" -> [use_mock |-> FALSE, dry_run |-> NoArg]
      [] OTHER -> [use_mock |-> in.use_mock, dry_run |-> in.dry_run]

InitConfig ==
    /\ cf_in \in ConfigInputs
    /\ cf_pc = "new"
    /\ dry_run = TRUE
    /\ use_mock = FALSE
    /\ connector_dry_run = TRUE
    /\ StartState
    /\ WriterStart
    /\ cl_in = NoInput
    /\ cl_out = Pending

\* TaskParserScheduler.__init__, lines 29-51
Construct ==
    /\ cf_pc = "new"
    /\ LET args == CtorArgs(cf_in)
           dry == ResolveDryRun(args.dry_run, cf_in.env)
       IN  /\ dry_run' = dry
           /\ use_mock' = args.use_mock
           /\ connector_dry_run' = ConnectorDryRun(args.use_mock, dry)
    /\ cf_pc' = "built"
    /\ UNCHANGED <<cf_in, tickets, clock, cycVars, stats, results, auditFiles,
                   calls, patches, rbVars, faults, mock_updates, clVars,
                   wrVars, obsVars>>

\* An update_incident call of the built scheduler's connector: what it sends
FirstUpdate ==
    /\ cf_pc = "built"
    /\ cf_pc' = "updated"
    /\ contacts' = contacts \cup UpdateRequests(use_mock, connector_dry_run)
    /\ UNCHANGED <<dry_run, use_mock, connector_dry_run, cf_in, tickets, clock,
                   pc, cycles, incidents, idx, choices, cycle_stats, run_ts,
                   audit_csv_path, details, class_errors, audit_failed,
                   succeeded, outcomes, audited, sample_size, stats, results,
                   auditFiles, calls, patches, rbVars, faults, mock_updates,
                   clVars, wrVars, obsVars>>

NextConfig ==
    \/ Construct
    \/ FirstUpdate

SpecConfig == InitConfig /\ [][NextConfig]_vars

----------------------------------------------------------------------------
(* append_task_result step by step, with the failures and the crashes its   *)
(* steps can meet                                                           *)

notWriter == <<cfgVars, tickets, cycVars, stats, results, auditFiles, calls,
               patches, rbVars, mock_updates, clVars, obsVars>>

\* A record written to the feed before the calls followed here
OldRecord == ResultRecord(1, Description, CatOld, 500, 0)

\* What the feed file can hold before the first call
InitialFeeds == {Absent, Blank, Garbage, Arr(<<>>), Arr(<<OldRecord>>)}

InitWriter ==
    /\ dry_run = TRUE
    /\ use_mock = FALSE
    /\ connector_dry_run = TRUE
    /\ Configured
    /\ StartState
    /\ cl_in = NoInput
    /\ cl_out = Pending
    /\ w_pc = "idle"
    /\ w_before \in InitialFeeds
    /\ w_fs = [EmptyDir EXCEPT !.files[output_json] = w_before]
    /\ w_data = <<>>
    /\ w_record = NoRecord
    /\ w_appended = <<>>
    /\ w_calls = 0

\* append_task_result, lines 13-33: the record is built
WrBegin ==
    /\ w_pc = "idle"
    /\ w_calls < MaxAppends
    /\ w_calls' = w_calls + 1
    /\ \E t \in TicketIds :
          w_record' = ResultRecord(t, Description, CatNet, 730, clock)
    /\ w_before' = w_fs.files[output_json]
    /\ w_data' = <<>>
    /\ w_pc' = "read"
    /\ UNCHANGED <<notWriter, clock, faults, w_fs, w_appended>>

\* append_task_result, lines 35-52: the feed is read, or the attempt raises
\* and data starts as []; the record is appended to data
WrRead ==
    /\ w_pc = "read"
    /\ \/ /\ w_data' = Append(ReadFeed(w_fs.files[output_json]), w_record)
          /\ UNCHANGED faults
       \/ /\ w_fs.files[output_json].kind # "absent"
          /\ faults < MaxFaults
          /\ faults' = faults + 1
          /\ w_data' = Append(<<>>, w_record)
    /\ w_pc' = "archive"
    /\ UNCHANGED <<notWriter, clock, w_fs, w_record, w_before, w_appended,
                   w_calls>>

\* append_task_result, lines 54-71: the feed, if there is one, is copied
\* into the archive under the name of the second, or the copy fails and the
\* failure is ignored
WrArchive ==
    /\ w_pc = "archive"
    /\ IF w_fs.files[output_json].kind = "absent"
       THEN UNCHANGED <<w_fs, faults>>
       ELSE \/ /\ w_fs' = [w_fs EXCEPT !.archive[clock] = w_fs.files[output_json]]
               /\ UNCHANGED faults
            \/ /\ faults < MaxFaults
               /\ faults' = faults + 1
               /\ \E left \in {w_fs.archive[clock], Partial} :
                     w_fs' = [w_fs EXCEPT !.archive[clock] = left]
    /\ w_pc' = "open"
    /\ UNCHANGED <<notWriter, clock, w_data, w_record, w_before, w_appended,
                   w_calls>>

\* append_task_result, line 75: the temporary file is opened for writing
WrOpenTemp ==
    /\ w_pc = "open"
    /\ w_fs' = [w_fs EXCEPT !.files[temp_path] = Partial]
    /\ w_pc' = "dump"
    /\ UNCHANGED <<notWriter, clock, faults, w_data, w_record, w_before,
                   w_appended, w_calls>>

\* append_task_result, line 76: data is written and the file closed
WrDump ==
    /\ w_pc = "dump"
    /\ w_fs' = [w_fs EXCEPT !.files[temp_path] = Arr(w_data)]
    /\ w_pc' = "replace"
    /\ UNCHANGED <<notWriter, clock, faults, w_data, w_record, w_before,
                   w_appended, w_calls>>

\* append_task_result, line 77: os.replace(temp_path, output_json)
WrReplace ==
    /\ w_pc = "replace"
    /\ w_fs' = [w_fs EXCEPT !.files =
                    [n \in FileNames |->
                        IF n = output_json THEN w_fs.files[temp_path]
                        ELSE IF n = temp_path THEN Absent
                        ELSE w_fs.files[n]]]
    /\ w_appended' = Append(w_appended, w_record)
    /\ w_pc' = "latest"
    /\ UNCHANGED <<notWriter, clock, faults, w_data, w_record, w_before,
                   w_calls>>

\* append_task_result, lines 79-87: the latest snapshot is replaced, or the
\* attempt fails and the failure is ignored
WrLatest ==
    /\ w_pc = "latest"
    /\ \/ /\ w_fs' = [w_fs EXCEPT !.files[latest_file] = Arr(w_data)]
          /\ UNCHANGED faults
       \/ /\ faults < MaxFaults
          /\ faults' = faults + 1
          /\ UNCHANGED w_fs
    /\ w_pc' = "csv"
    /\ UNCHANGED <<notWriter, clock, w_data, w_record, w_before, w_appended,
                   w_calls>>

\* append_task_result, lines 89-101: the row is appended to the csv file and
\* the call returns
WrCsv ==
    /\ w_pc = "csv"
    /\ w_fs' = [w_fs EXCEPT !.csv = Append(@, w_record)]
    /\ w_pc' = "idle"
    /\ UNCHANGED <<notWriter, clock, faults, w_data, w_record, w_before,
                   w_appended, w_calls>>

\* An exception leaves append_task_result (lines 58, 75-77 and 91-101 are
\* outside every try), or the process is killed: the files stay as the steps
\* taken so far have left them
WrAbandon ==
    /\ w_pc # "idle"
    /\ faults < MaxFaults
    /\ faults' = faults + 1
    /\ w_pc' = "idle"
    /\ UNCHANGED <<notWriter, clock, w_fs, w_data, w_record, w_before,
                   w_appended, w_calls>>

\* Time passes between two calls
WrTick ==
    /\ w_pc = "idle"
    /\ clock < MaxClock
    /\ clock' = clock + 1
    /\ UNCHANGED <<notWriter, faults, wrVars>>

NextWriter ==
    \/ WrBegin
    \/ WrRead
    \/ WrArchive
    \/ WrOpenTemp
    \/ WrDump
    \/ WrReplace
    \/ WrLatest
    \/ WrCsv
    \/ WrAbandon
    \/ WrTick

SpecWriter == InitWriter /\ [][NextWriter]_vars

----------------------------------------------------------------------------
(* Properties of the cycle *)

FailedClassifications == Cardinality({i \in 1..Len(outcomes) : ~outcomes[i]})
FailedUpdates == Cardinality({j \in 1..Len(calls) : calls[j].result # "True"})

\* C1: in a cycle, an incident whose classification did not return SUCCESS
\* gets no update_incident call and no audit row, and counts exactly one
\* error: the errors of the cycle are its failed classifications plus its
\* failed update calls.
C1_FailedClassificationLeftAlone ==
    pc # "idle" =>
        /\ \A i \in 1..Len(outcomes) :
              ~outcomes[i] =>
                 /\ \A j \in 1..Len(calls) : calls[j].ticket_id # incidents[i].sys_id
                 /\ \A j \in 1..Len(audited) : audited[j].ticket_id # incidents[i].sys_id
        /\ cycle_stats.errors = FailedClassifications + FailedUpdates

\* A live cycle over two incidents has returned: one incident failed its
\* classification, the other was classified, updated and audited.
C1_Witness ==
    /\ pc = "returned"
    /\ Len(outcomes) = 2
    /\ \E i \in 1..2 : ~outcomes[i]
    /\ Len(calls) = 1
    /\ Len(audited) = 1
    /\ cycle_stats.errors = 1

PatchInChoices(data, ch) ==
    /\ "category" \in DOMAIN data => data["category"] \in ch.category
    /\ "subcategory" \in DOMAIN data => data["subcategory"] \in ch.subcategory
    /\ "impact" \in DOMAIN data => data["impact"] \in ch.impact
    /\ "urgency" \in DOMAIN data => data["urgency"] \in ch.urgency

\* C2: in live mode every category, subcategory, impact and urgency that a
\* cycle writes with a PATCH (the category after the cut to 40 characters) is
\* in the list of choices the cycle loaded for that field.
C2_WrittenValuesAreChoices ==
    (pc # "idle" /\ ~dry_run) =>
        \A j \in 1..Len(patches) : PatchInChoices(patches[j].data, choices)

\* C4: in dry-run mode a cycle sends no PATCH, every update_incident call
\* returns True without a request, and no audit file has a row.
C4_DryRunNeverMutates ==
    dry_run =>
        /\ pc # "idle" =>
              /\ patches = <<>>
              /\ \A j \in 1..Len(calls) :
                    calls[j].result = "True" /\ ~calls[j].network
        /\ auditFiles = NoFiles

RowKey(row) ==
    [ticket_id |-> row.ticket_id, old_category |-> row.old_category,
     new_category |-> row.new_category]

\* C5: when a live cycle returns in which updates succeeded and no audit
\* write failed, its audit file holds exactly one row per successful update,
\* in processing order, with the snapshot's category as old_category and the
\* classified one as new_category.
C5_AuditFileIsTheCycleRows ==
    (pc = "returned" /\ ~dry_run /\ succeeded # <<>> /\ ~audit_failed) =>
        LET file == auditFiles[audit_csv_path]
        IN  /\ Len(file) = Len(succeeded)
            /\ \A i \in 1..Len(file) : RowKey(file[i]) = succeeded[i]

\* C10: in every state of a cycle retrieved >= classified >= updated, and
\* classified plus the errors counted for failed classifications is at most
\* retrieved.
C10_CountersOrdered ==
    /\ cycle_stats.retrieved >= cycle_stats.classified
    /\ cycle_stats.classified >= cycle_stats.updated
    /\ cycle_stats.classified + class_errors <= cycle_stats.retrieved

\* A cycle has returned with one incident classified and updated and one
\* counted as a failed classification.
C10_Witness ==
    /\ pc = "returned"
    /\ cycle_stats.retrieved = 2
    /\ cycle_stats.classified = 1
    /\ cycle_stats.updated = 1
    /\ class_errors = 1

\* The step is the operator's stop, which may cut a cycle short at any
\* statement; the properties of the steps of a cycle are about the others.
Stopped == pc' = "exited"

InLoop == pc \in {"loop", "persist", "update", "audit"}

\* The loop of this cycle was entered (enumerate counts from 1)
LoopEntered == idx # 0

\* The position in the batch of the incident an update call was made for
PositionOf(ticket_id) ==
    CHOOSE i \in 1..Len(incidents) : incidents[i].sys_id = ticket_id

CallsFor(i) == {j \in 1..Len(calls) : calls[j].ticket_id = incidents[i].sys_id}

\* Incident i has failed: its classification, or its update call
HasFailed(i) ==
    \/ ~outcomes[i]
    \/ \E j \in CallsFor(i) : calls[j].result # "True"

\* C11: a failure while processing an incident (failed classification, failed
\* update, an exception) does not end the cycle.  The incidents are taken one
\* by one in the order fetched, none is skipped, the cycle returns only after
\* the last one, every accepted incident gets its one update call in batch
\* order, and the errors of the cycle are the number of failed incidents.
C11_FailureDoesNotAbort ==
    /\ InLoop => Len(outcomes) = (IF pc = "loop" THEN idx - 1 ELSE idx)
    /\ (pc = "returned" /\ LoopEntered) => Len(outcomes) = Len(incidents)
    /\ (InLoop \/ pc = "returned") =>
          /\ \A i \in 1..Len(outcomes) :
                /\ Cardinality(CallsFor(i)) <= 1
                /\ (outcomes[i] /\ ~(i = idx /\ pc \in {"persist", "update"}))
                      => Cardinality(CallsFor(i)) = 1
          /\ \A j, k \in 1..Len(calls) :
                j < k => PositionOf(calls[j].ticket_id) < PositionOf(calls[k].ticket_id)
          /\ cycle_stats.errors =
                Cardinality({i \in 1..Len(outcomes) : HasFailed(i)})

\* A live cycle over two incidents has returned: the update of the first
\* failed, the second was still classified and updated.
C11_Witness ==
    /\ pc = "returned"
    /\ Len(incidents) = 2
    /\ Len(calls) = 2
    /\ calls[1].result = "False"
    /\ calls[2].result = "True"
    /\ cycle_stats.errors = 1

RequiredListEmpty(ch) == ch.category = {} \/ ch.impact = {} \/ ch.urgency = {}

\* C12: a cycle that has loaded an empty category, impact or urgency list
\* returns at once: nothing is classified, no update call is made, the result
\* feed, the audit files and the tickets stay as they were, and the stats
\* returned are the retrieved count with classified, updated and errors at 0.
\* The loop is entered exactly when none of these three lists is empty,
\* whatever the subcategory list holds.
C12_MissingChoicesAbort ==
    [][ ~Stopped =>
        /\ (pc = "vocab" /\ RequiredListEmpty(choices')) =>
              /\ pc' = "returned"
              /\ cycle_stats' = [ZeroStats EXCEPT !.retrieved = cycle_stats.retrieved]
              /\ cycle_stats'.retrieved >= Len(incidents')
              /\ outcomes' = <<>> /\ calls' = <<>> /\ patches' = <<>>
              /\ results' = results /\ auditFiles' = auditFiles
              /\ tickets' = tickets /\ stats' = stats
        /\ (pc = "vocab" /\ ~RequiredListEmpty(choices') /\ faults' = faults) =>
              /\ pc' = "loop"
              /\ idx' = 1
      ]_vars

\* A cycle that fetched two incidents has returned on an empty category list
\* with the subcategory list loaded
C12_Witness ==
    /\ pc = "returned"
    /\ choices.category = {}
    /\ choices.subcategory # {}
    /\ choices.impact # {}
    /\ cycle_stats = [ZeroStats EXCEPT !.retrieved = 2]
    /\ results = <<>>
    /\ auditFiles = NoFiles

\* The update_incident call made in this step, if one was made
CallMade == Len(calls') = Len(calls) + 1
LastCall == calls'[Len(calls')]

\* C13: when update_incident returns False in a live cycle, the cycle counts
\* one error more, leaves updated as it is, writes nothing to an audit file
\* and goes on with the next incident; no audit row of the cycle is for a
\* ticket whose update call returned False.
C13_FailedUpdateIsOneError ==
    /\ [][ (pc = "update" /\ CallMade /\ LastCall.result = "False") =>
              /\ cycle_stats'.errors = cycle_stats.errors + 1
              /\ cycle_stats'.updated = cycle_stats.updated
              /\ cycle_stats'.classified = cycle_stats.classified
              /\ auditFiles' = auditFiles
              /\ audited' = audited
              /\ succeeded' = succeeded
              /\ pc' = "loop"
              /\ idx' = idx + 1
         ]_vars
    /\ [](pc # "idle" =>
            \A j \in 1..Len(calls) :
                calls[j].result = "False" =>
                    \A k \in 1..Len(audited) : audited[k].ticket_id # calls[j].ticket_id)

\* A live cycle has returned whose only update call was answered with a
\* refusal: one error, nothing updated, no audit row.
C13_Witness ==
    /\ pc = "returned"
    /\ ~dry_run
    /\ Len(calls) = 1
    /\ calls[1].network
    /\ calls[1].result = "False"
    /\ patches[1].outcome = "rejected"
    /\ cycle_stats.classified = 1
    /\ cycle_stats.updated = 0
    /\ cycle_stats.errors = 1
    /\ auditFiles = NoFiles

\* C14: an update call of a live cycle that returns False (a status other
\* than 200, a timeout, any exception of the request) has changed no ticket.
C14_FailedCallChangesNothing ==
    [][ (pc = "update" /\ CallMade /\ LastCall.result = "False") =>
            tickets' = tickets
      ]_vars

\* C15: whatever append_task_result does (a failure included), the next step
\* for the incident is its update_incident call, with the counters as they
\* were; whatever append_audit_entry does after a successful update (a
\* failure included), updated keeps its increment, errors is not touched and
\* the loop goes on with the next incident.
C15_PersistenceIsBestEffort ==
    [][ ~Stopped =>
        /\ pc = "persist" =>
              /\ pc' = "update"
              /\ idx' = idx
              /\ details' = details
              /\ cycle_stats' = cycle_stats
        /\ pc = "update" => CallMade
        /\ pc = "audit" =>
              /\ cycle_stats' = cycle_stats
              /\ cycle_stats.updated >= 1
              /\ pc' = "loop"
              /\ idx' = idx + 1
      ]_vars

\* A live cycle has returned in which the audit row of the first incident
\* could not be written: both incidents count as updated, none as an error,
\* and the second has its audit row.
C15_Witness ==
    /\ pc = "returned"
    /\ audit_failed
    /\ cycle_stats.updated = 2
    /\ cycle_stats.errors = 0
    /\ Len(audited) = 1
    /\ audited[1].ticket_id = incidents[2].sys_id

\* C16 as stated: in either mode the feed grows by exactly one record, that
\* of the incident in hand, between the successful classification of an
\* incident and its update call, and by none in any other step.
C16_OneRecordPerClassified ==
    [][ ~Stopped =>
        /\ pc = "persist" => results' = Append(results, RecordInHand)
        /\ pc # "persist" => results' = results
      ]_vars

\* C16 amended: in either mode append_task_result is called once for each
\* successfully classified incident, before its update call and whatever that
\* call returns, and for no other incident.  The call adds at most one record:
\* afterwards the feed is as it was (the call raised), or its last record is
\* that of the incident in hand.
C16_OneAppendCallPerClassified ==
    [][ ~Stopped =>
        /\ pc = "persist" =>
              /\ outcomes[idx]
              /\ calls' = calls
              /\ pc' = "update"
              /\ \/ results' = results
                 \/ /\ results' # <<>>
                    /\ results'[Len(results')] = RecordInHand
                    /\ Len(results') <= Len(results) + 1
        /\ pc # "persist" => results' = results
        /\ (pc = "loop" /\ pc' = "loop") => results' = results
      ]_vars

\* A dry-run cycle has returned: two incidents were classified and both got
\* their update call, but the feed holds one record only, the append for the
\* other incident having raised.
C16_Witness ==
    /\ pc = "returned"
    /\ dry_run
    /\ cycle_stats.classified = 2
    /\ Len(calls) = 2
    /\ Len(results) = 1
    /\ faults = 1

----------------------------------------------------------------------------
(* Properties of the rollback *)

AllCallsSucceeded == \A j \in 1..Len(calls) : calls[j].result = "True"

\* C6: after a rollback with commit in which every update call succeeded, the
\* category of each audited ticket is the old_category of its audit row, the
\* empty old_category of a ticket that had none included.
C6_RollbackRestoresOldCategory ==
    (rb_pc = "done" /\ rb_commit /\ AllCallsSucceeded) =>
        \A i \in 1..Len(auditFiles[rb_file]) :
            LET row == auditFiles[rb_file][i]
            IN  tickets[row.ticket_id].category = row.old_category

\* C7: a rollback with commit issues one update call per row of the audit
\* file, in file order, whether or not earlier calls failed.
C7_OneCallPerRow ==
    rb_commit =>
        /\ rb_pc = "running" => Len(calls) = rb_idx - 1
        /\ rb_pc = "done" => Len(calls) = Len(auditFiles[rb_file])
        /\ Len(patches) = Len(calls)
        /\ \A j \in 1..Len(calls) :
              calls[j].ticket_id = auditFiles[rb_file][j].ticket_id

\* A rollback with commit over two rows is over: the first call failed, the
\* second was still issued, for another ticket.
C7_Witness ==
    /\ rb_pc = "done"
    /\ rb_commit
    /\ Len(auditFiles[rb_file]) = 2
    /\ Len(calls) = 2
    /\ calls[1].result = "False"
    /\ calls[1].ticket_id # calls[2].ticket_id

\* C8: a rollback without commit sends no request and issues no update call:
\* it prints one line per row and leaves every ticket as it was.
C8_NoCommitOnlyPrints ==
    (rb_pc # "idle" /\ ~rb_commit) =>
        /\ patches = <<>>
        /\ calls = <<>>
        /\ tickets = rb_tickets0
        /\ rb_pc = "running" => rb_prints = rb_idx - 1
        /\ rb_pc = "done" => rb_prints = Len(auditFiles[rb_file])

\* A rollback without commit has gone through an audit file of two rows.
C8_Witness ==
    /\ rb_pc = "done"
    /\ ~rb_commit
    /\ rb_prints = 2

\* C9: every update of a rollback with commit clears the markers
\* (u_auto_classified false, u_auto_classification_category empty) and
\* carries a work-note naming the restored old_category and the new_category
\* reverted from.
C9_RollbackClearsMarkers ==
    rb_pc # "idle" =>
        \A j \in 1..Len(patches) :
            LET data == patches[j].data
                a == rb_actions[j]
            IN  /\ data["u_auto_classified"] = "false"
                /\ data["u_auto_classification_category"] = Empty
                /\ data["work_notes"].kind = "rollback"
                /\ data["work_notes"].restored = a.old_category
                /\ data["work_notes"].was = a.new_category

----------------------------------------------------------------------------
(* Properties of append_task_result *)

Feed == w_fs.files[output_json]

\* C17: once records have been appended, the feed is a JSON array that ends
\* with all of them in call order, whatever the feed held at first:
\* no call drops or reorders a record put there by an earlier call.
C17_FeedOnlyGrows ==
    w_appended # <<>> =>
        /\ Feed.kind = "array"
        /\ Len(Feed.recs) >= Len(w_appended)
        /\ SubSeq(Feed.recs, Len(Feed.recs) - Len(w_appended) + 1,
                  Len(Feed.recs)) = w_appended

\* C18: at every step of a call, and after a call given up at any step, the
\* feed file holds what it held when the call began, or the complete array
\* the call has built, which ends with the new record; it never holds a text
\* cut short.
C18_FeedReplacedAtomically ==
    /\ Feed.kind # "partial"
    /\ \/ Feed = w_before
       \/ /\ Feed = Arr(w_data)
          /\ w_data # <<>>
          /\ w_data[Len(w_data)] = w_record

\* The second call was cut off while it wrote the temporary file: the feed
\* still is the array the first call left.
C18_Witness ==
    /\ w_pc = "idle"
    /\ w_calls = 2
    /\ w_fs.files[temp_path] = Partial
    /\ Len(w_appended) = 1
    /\ Feed.kind = "array"
    /\ Feed.recs # <<>>
    /\ Feed = w_before

\* C19: when there was a feed file as a call began, its content is in the
\* archive from the moment the feed file holds something else: at every
\* step, and after a failed step or a crash, the content from before the
\* call is in the feed file or in the archive.
C19_PriorContentArchived ==
    (w_before.kind # "absent" /\ Feed # w_before) =>
        \E ts \in 1..MaxClock : w_fs.archive[ts] = w_before

----------------------------------------------------------------------------
(* Properties of classify *)

Ran == cl_out # Pending

\* C3 as stated: classify returns SUCCESS only when category, impact and
\* urgency are among their choices and subcategory is null or among its
\* choices, and it fails on every other answer.
C3_SuccessOnlyOnChoices ==
    Ran =>
        (cl_out.status = "SUCCESS" <=>
            /\ Truthy(cl_in.description)
            /\ cl_in.response.kind = "json"
            /\ cl_in.response.category \in cl_in.choices.category
            /\ cl_in.response.impact \in cl_in.choices.impact
            /\ cl_in.response.urgency \in cl_in.choices.urgency
            /\ \/ cl_in.response.subcategory = None
               \/ cl_in.response.subcategory \in cl_in.choices.subcategory)

\* C3 amended: classify returns SUCCESS exactly when the description is not
\* empty, the answer is a JSON object, category, impact and urgency are among
\* their choices and subcategory is null, empty or among its choices; the
\* result then carries the four values as the model gave them.
C3_SuccessOnlyOnChoicesOrEmptySub ==
    Ran =>
        /\ cl_out.status = "SUCCESS" <=>
              /\ cl_in.description # Empty
              /\ cl_in.response.kind = "json"
              /\ cl_in.response.category \in cl_in.choices.category
              /\ cl_in.response.impact \in cl_in.choices.impact
              /\ cl_in.response.urgency \in cl_in.choices.urgency
              /\ \/ cl_in.response.subcategory \in {None, Empty}
                 \/ cl_in.response.subcategory \in cl_in.choices.subcategory
        /\ cl_out.status = "SUCCESS" =>
              /\ cl_out.details.category = cl_in.response.category
              /\ cl_out.details.subcategory = cl_in.response.subcategory
              /\ cl_out.details.impact = cl_in.response.impact
              /\ cl_out.details.urgency = cl_in.response.urgency

\* The words of the scale and what they stand for, in thousandths
WordConfidence(word) ==
    CASE word = <<"h", "i", "g", "h">> -> 900
      [] word = <<"m", "e", "d", "i", "u", "m">> -> 600
      [] word = <<"l", "o", "w">> -> 300
      [] OTHER -> 0

\* Numeric: a JSON number, or a string holding a decimal literal
IsNumeric(raw) == raw.kind = "num" \/ (raw.kind = "str" /\ IsFloatLiteral(raw.str))
NumericValue(raw) == IF raw.kind = "num" THEN raw.num ELSE FloatOfLiteral(raw.str)

\* C20 as stated: the confidence of a SUCCESS result is the numeric value
\* given; for a non-numeric value it is 0.9, 0.6 or 0.3 when the value equals
\* "high", "medium" or "low" ignoring case, and 0.0 for every other value.
C20_ConfidenceAsStated ==
    (Ran /\ cl_out.status = "SUCCESS") =>
        LET raw == cl_in.response.confidence
        IN  cl_out.details.confidence =
              IF IsNumeric(raw) THEN NumericValue(raw)
              ELSE IF raw.kind = "str" THEN WordConfidence(Lower(raw.str))
              ELSE 0

\* C20 amended: the confidence of a SUCCESS result is the number float()
\* makes of the value when it makes one (a number, a numeric string, true as
\* 1.0 and false as 0.0); else 0.9, 0.6 or 0.3 for a string that, with the
\* blanks around it removed, equals "high", "medium" or "low" ignoring case;
\* else 0.0 (a missing or null field, any other string).
C20_ConfidenceStrippedWordsAndBooleans ==
    (Ran /\ cl_out.status = "SUCCESS") =>
        LET raw == cl_in.response.confidence
        IN  cl_out.details.confidence =
              IF IsNumeric(raw) THEN NumericValue(raw)
              ELSE IF raw.kind = "bool" THEN (IF raw.num = 1 THEN 1000 ELSE 0)
              ELSE IF raw.kind = "str" THEN WordConfidence(Lower(Strip(raw.str)))
              ELSE 0

\* classify has accepted an answer whose confidence is " high ", and given
\* it 0.9
C20_Witness ==
    /\ cl_out.status = "SUCCESS"
    /\ cl_in.response.confidence = StrConf(<<" ", "h", "i", "g", "h", " ">>)
    /\ cl_out.details.confidence = 900

\* C21: the confidence of every SUCCESS result of classify is within [0, 1]
\* (0 to 1000 thousandths), whatever confidence the model gave.
C21_ConfidenceInUnitInterval ==
    (Ran /\ cl_out.status = "SUCCESS") =>
        /\ cl_out.details.confidence >= 0
        /\ cl_out.details.confidence <= 1000

\* The outcome of classify but for the confidence
Acceptance(out) ==
    [status |-> out.status, category |-> out.details.category,
     subcategory |-> out.details.subcategory, impact |-> out.details.impact,
     urgency |-> out.details.urgency]

\* C22: the outcome of classify but for the confidence (the status, which
\* tells whether classify returned or raised, and the four values) is the
\* same for every answer that differs from the one given in its confidence
\* only.
C22_ConfidenceNeverDecides ==
    (Ran /\ cl_in.response.kind = "json") =>
        \A conf \in ClassifyConfidences :
            Acceptance(Classify(cl_in.description, cl_in.choices,
                                [cl_in.response EXCEPT !.confidence = conf]))
                = Acceptance(cl_out)

\* classify has accepted an answer whose confidence is a text it can make
\* nothing of, and given it 0.0
C22_Witness ==
    /\ cl_out.status = "SUCCESS"
    /\ cl_in.response.confidence = StrConf(<<"n", "/", "a">>)
    /\ cl_out.details.confidence = 0

\* classify has accepted an answer whose subcategory is the empty string
C3_Witness ==
    /\ cl_out.status = "SUCCESS"
    /\ cl_in.response.subcategory = Empty
    /\ cl_in.response.category = CatLong

----------------------------------------------------------------------------
(* Properties of the cycle: empty input, retries, statistics, stop *)

ModelCallsFor(i) ==
    {j \in 1..Len(model_calls) : model_calls[j] = incidents[i].sys_id}

\* C23: an incident whose description is empty is answered by classify with
\* a failure and without a call of the external model; the cycle makes no
\* update call and writes no audit row for it and counts it as one error.
C23_EmptyDescriptionFailsWithoutModel ==
    pc # "idle" =>
        /\ \A i \in 1..Len(outcomes) :
              ~Truthy(incidents[i].short_description) =>
                 /\ ~outcomes[i]
                 /\ ModelCallsFor(i) = {}
                 /\ CallsFor(i) = {}
        /\ Len(model_calls) =
              Cardinality({i \in 1..Len(outcomes) :
                              Truthy(incidents[i].short_description)})
        /\ cycle_stats.errors = FailedClassifications + FailedUpdates

\* A cycle over two incidents has returned: the first had an empty
\* description and is the one error, the second went to the model.
C23_Witness ==
    /\ pc = "returned"
    /\ Len(outcomes) = 2
    /\ incidents[1].short_description = Empty
    /\ model_calls = <<incidents[2].sys_id>>
    /\ outcomes[2]
    /\ cycle_stats.errors = 1
    /\ cycle_stats.classified = 1

\* The step in which process_tickets fetches
Fetches == pc = "idle" /\ cycles' = cycles + 1

\* C24: when the fetch returns no incidents the cycle ends in that step with
\* all four counters at zero; no choices are loaded, no model call, update
\* call, PATCH, feed record or audit row is made, and the tickets and the
\* cumulative statistics stay as they were.
C24_NoIncidentsEndsCycle ==
    /\ [][ (Fetches /\ cycle_stats'.retrieved = 0) =>
              /\ pc' = "returned"
              /\ cycle_stats' = ZeroStats
              /\ stats' = stats
              /\ results' = results
              /\ auditFiles' = auditFiles
              /\ tickets' = tickets
              /\ mock_updates' = mock_updates
         ]_vars
    /\ []((pc = "returned" /\ cycle_stats.retrieved = 0) =>
            /\ cycle_stats = ZeroStats
            /\ incidents = <<>>
            /\ choices = NoChoices
            /\ model_calls = <<>>
            /\ calls = <<>>
            /\ patches = <<>>
            /\ outcomes = <<>>
            /\ audited = <<>>
            /\ audit_csv_path = NoPath)

\* The second cycle of a process has fetched nothing and returned, after a
\* first cycle that classified an incident.
C24_Witness ==
    /\ pc = "returned"
    /\ cycles = 2
    /\ cycle_stats = ZeroStats
    /\ stats.total_processed = 1
    /\ results # <<>>

PatchesFor(i) ==
    {j \in 1..Len(patches) : patches[j].ticket_id = incidents[i].sys_id}

\* The incidents of the batch that classify has been called for
Classified == IF pc = "loop" THEN idx - 1 ELSE idx

\* C25: within a cycle classify is called once for each incident the loop
\* has reached, in the order of the batch, and every incident of the batch
\* gets at most one call of the model, at most one update_incident call and
\* at most one PATCH, whether the call failed or not.
C25_NoRetryWithinCycle ==
    InLoop =>
        /\ Len(outcomes) = Classified
        /\ Len(outcomes) <= Len(incidents)
        /\ \A i \in 1..Len(incidents) :
              /\ Cardinality(ModelCallsFor(i)) <= 1
              /\ Cardinality(CallsFor(i)) <= 1
              /\ Cardinality(PatchesFor(i)) <= 1
              /\ i > Len(outcomes) =>
                    ModelCallsFor(i) = {} /\ CallsFor(i) = {}
        /\ Len(model_calls) <= Len(outcomes)
        /\ Len(calls) <= Len(outcomes)

\* The loop of a live cycle has ended after two incidents: the classification
\* of one failed at the model, the update call of the other failed, and each
\* was tried once.
C25_Witness ==
    /\ pc = "loop"
    /\ idx = 3
    /\ Len(incidents) = 2
    /\ ~dry_run
    /\ Len(model_calls) = 2
    /\ FailedClassifications = 1
    /\ Len(calls) = 1
    /\ calls[1].result = "False"
    /\ cycle_stats.errors = 2

\* C26 as stated: the cumulative statistics are the sums of the statistics
\* the cycles of the process returned: total_processed of classified,
\* successfully_updated of updated, errors of errors.
C26_StatsAreSumsOfCycles ==
    /\ stats.total_processed = totals.classified
    /\ stats.successfully_updated = totals.updated
    /\ stats.errors = totals.errors

\* C26, amended: total_processed is the sum of classified and
\* successfully_updated the sum of updated over the cycles returned so far;
\* the cumulative errors are the sum of the cycles' errors plus one for every
\* cycle that ended in the outermost handler of process_tickets.
C26_StatsAreSumsPlusFatal ==
    /\ stats.total_processed = totals.classified
    /\ stats.successfully_updated = totals.updated
    /\ stats.errors = totals.errors + totals.fatal

\* Two cycles have returned: one counted an error of its own and classified
\* an incident, one ended in the outermost handler.
C26_Witness ==
    /\ pc = "returned"
    /\ cycles = 2
    /\ totals.fatal = 1
    /\ totals.errors = 1
    /\ totals.classified = 1
    /\ stats.errors = 2

InCycle == pc \in {"vocab", "loop", "persist", "update", "audit"}

\* C27: no exception leaves process_tickets: a cycle that has begun, whatever
\* fails in it, comes to return its statistics (unless the operator stops the
\* process first), and a cycle that has returned gives way to the scheduling
\* loop, which is then ready for the next cycle.
C27_CycleAlwaysReturns ==
    /\ [](pc # "escaped")
    /\ (InCycle ~> pc \in {"returned", "exited"})
    /\ (pc = "returned" ~> pc \in {"idle", "exited"})

\* The second cycle of a process is under way after a first cycle that ended
\* in the outermost handler.
C27_Witness ==
    /\ cycles = 2
    /\ pc = "loop"
    /\ totals.fatal = 1
    /\ stats.errors = 1

\* C28: a cycle that has returned, whatever its outcome, has logged the
\* summary of its retrieved, classified, updated and errors counters.
C28_SummaryAlwaysLogged ==
    pc = "returned" => summary_logged

TrueCalls == {j \in 1..Len(calls) : calls[j].result = "True"}

\* C29: when the operator's stop has ended the process during a live cycle
\* whose audit file took every row offered to it, each incident of the cycle
\* was handled whole: every update call that returned True was counted in
\* updated and has its row in the audit file, so that no ticket is left
\* updated without its audit row.
C29_StopBetweenIncidents ==
    (pc = "exited" /\ ~dry_run /\ ~audit_failed) =>
        /\ cycle_stats.updated = Cardinality(TrueCalls)
        /\ Len(audited) = Cardinality(TrueCalls)
        /\ \A j \in TrueCalls :
              \E k \in 1..Len(audited) : audited[k].ticket_id = calls[j].ticket_id

\* C30: when the operator's stop has ended a process whose start had begun
\* its initial cycle, whether the stop came during that cycle, during a
\* scheduled cycle or between cycles, print_final_stats has run.
C30_FinalStatsOnStop ==
    (pc = "exited" /\ cycles >= 1) => final_stats_printed

\* C31: the audit rows a live cycle has written all carry the run_timestamp
\* of the cycle and are together the whole content of one audit file: the
\* file a cycle has written to holds no row of another cycle.
C31_AuditFileOfOneCycle ==
    (InLoop /\ ~dry_run /\ audited # <<>>) =>
        /\ auditFiles[audit_csv_path] = audited
        /\ \A k \in 1..Len(audited) : audited[k].run_timestamp = run_ts

\* The number of incidents a cycle is to process
BatchSize ==
    IF sample_size > 0 THEN Min(sample_size, cycle_stats.retrieved)
    ELSE cycle_stats.retrieved

\* C32: in a cycle that fetched incidents, retrieved is the number fetched
\* and the batch is the first min(sample_size, retrieved) of them in the
\* order of the ticket source (all of them when sample_size is 0); classify,
\* the model and update_incident are called for incidents of the batch only,
\* and a loop that has run to its end has processed every one of them.
C32_SampleIsFirstN ==
    cycle_stats.retrieved > 0 =>
        /\ Len(incidents) = BatchSize
        /\ \A i \in 1..Len(incidents) : incidents[i].sys_id = i
        /\ \A j \in 1..Len(model_calls) : model_calls[j] \in 1..BatchSize
        /\ \A j \in 1..Len(calls) : calls[j].ticket_id \in 1..BatchSize
        /\ Len(outcomes) <= BatchSize
        /\ (pc = "returned" /\ LoopEntered) => Len(outcomes) = BatchSize

\* A cycle with sample_size 1 has returned: two incidents were fetched, the
\* first was classified and got its update call, the second was left alone.
C32_Witness ==
    /\ pc = "returned"
    /\ sample_size = 1
    /\ cycle_stats.retrieved = 2
    /\ Len(incidents) = 1
    /\ outcomes = <<TRUE>>
    /\ Len(calls) = 1
    /\ calls[1].ticket_id = 1
    /\ cycle_stats.classified = 1

\* The loop is between two incidents, or over
BetweenIncidents == pc = "loop" \/ (pc = "returned" /\ LoopEntered)

\* The ways incident i of the batch was counted: as updated, as a failed
\* classification, as a failed update call
CountedFor(i) ==
    Cardinality(CallsFor(i) \cap TrueCalls)
      + (IF outcomes[i] THEN 0 ELSE 1)
      + Cardinality(CallsFor(i) \ TrueCalls)

\* C33: whenever the loop of a cycle is between two incidents, and so at its
\* end, updated + errors is the number of incidents processed so far, and
\* each of them was counted once: as updated, or as one error.
C33_UpdatedPlusErrorsIsProcessed ==
    BetweenIncidents =>
        /\ cycle_stats.updated + cycle_stats.errors = Len(outcomes)
        /\ cycle_stats.updated = Cardinality(TrueCalls)
        /\ \A i \in 1..Len(outcomes) : CountedFor(i) = 1
        /\ (pc = "returned" \/ idx > Len(incidents)) =>
              cycle_stats.updated + cycle_stats.errors = Len(incidents)

\* The loop of a cycle over two incidents is at its end: one incident was
\* counted as updated, the other as an error.
C33_Witness ==
    /\ pc = "loop"
    /\ Len(incidents) = 2
    /\ idx = 3
    /\ cycle_stats.updated = 1
    /\ cycle_stats.errors = 1

\* C34: a scheduler built with the mock connector sends no request to the
\* ServiceNow instance in any step of a cycle.
C34_MockNeverContactsInstance ==
    use_mock => contacts = {}

\* C35: when the first cycle of a scheduler built with the mock connector
\* has run its loop to the end, every update call of the cycle returned True,
\* updated equals classified, and the mock's updates list holds one entry for
\* each classified incident, in processing order.
C35_MockStoresEveryUpdate ==
    (use_mock /\ cycles = 1 /\ pc = "returned" /\ LoopEntered) =>
        /\ \A j \in 1..Len(calls) : calls[j].result = "True"
        /\ cycle_stats.updated = cycle_stats.classified
        /\ Len(mock_updates) = cycle_stats.classified
        /\ \A i \in 1..Len(outcomes) :
              outcomes[i] =>
                 \E j \in 1..Len(mock_updates) :
                    mock_updates[j].ticket_id = incidents[i].sys_id
        /\ \A j, k \in 1..Len(mock_updates) :
              j < k => mock_updates[j].ticket_id < mock_updates[k].ticket_id

----------------------------------------------------------------------------
(* Properties of the way the scheduler is built *)

True4 == <<"t", "r", "u", "e">>

\* The built scheduler was given an explicit dry_run argument
ArgGiven == CtorArgs(cf_in).dry_run # NoArg

\* The clauses of C36 that do not speak of the connector: an explicit
\* argument decides whatever DRY_RUN says, dry run is the mode when neither
\* is given, and the single-cycle runner is live exactly with --commit.
DryRunResolved ==
    /\ ArgGiven => dry_run = (CtorArgs(cf_in).dry_run = "True")
    /\ (~ArgGiven /\ cf_in.env = None) => dry_run
    /\ cf_in.entry = "runner" => (~dry_run <=> cf_in.commit)

\* C36 as stated: the clauses above, and the connector used for updates has
\* the dry-run setting of the scheduler.
C36_LiveOnlyOnRequest ==
    cf_pc # "new" =>
        /\ DryRunResolved
        /\ connector_dry_run = dry_run

\* C36, amended: the clauses above; without an argument the scheduler is in
\* dry run exactly when DRY_RUN is unset or spells true in any letter case;
\* the real connector has the dry-run setting of the scheduler and the mock
\* connector is always in dry run; an update call sends a PATCH only from a
\* real connector of a scheduler that is not in dry run.
C36_LiveOnlyOnRequestRealConnector ==
    cf_pc # "new" =>
        /\ DryRunResolved
        /\ ~ArgGiven =>
              (dry_run <=> (cf_in.env = None \/ Lower(cf_in.env) = True4))
        /\ use_mock = CtorArgs(cf_in).use_mock
        /\ ~use_mock => connector_dry_run = dry_run
        /\ use_mock => connector_dry_run
        /\ cf_pc = "updated" =>
              ("PATCH incident" \in contacts <=> (~use_mock /\ ~dry_run))

\* A scheduler built with the mock connector and dry_run=False, DRY_RUN being
\* true, has made an update call: the scheduler is live, its connector is in
\* dry run and nothing was sent.
C36_Witness ==
    /\ cf_pc = "updated"
    /\ cf_in.entry = "direct"
    /\ cf_in.dry_run = "False"
    /\ cf_in.env = True4
    /\ use_mock
    /\ ~dry_run
    /\ connector_dry_run
    /\ contacts = {}

----------------------------------------------------------------------------
(* Properties of the ticket across cycles *)

\* The rows of all audit files, oldest first
RECURSIVE RowsUpTo(_)
RowsUpTo(ts) == IF ts = 0 THEN <<>> ELSE RowsUpTo(ts - 1) \o auditFiles[ts]
AllRows == RowsUpTo(MaxClock)

====
